---------------------------- MODULE Spec2Model ----------------------------
(***************************************************************************)
(* Model of the DPWH flood-control report generator (JavaScript).          *)
(*                                                                         *)
(* The repository holds two near-duplicate programs: src/unnamed/part_000  *)
(* and src/main.js.  The variable `file` says which of the two is running; *)
(* where the two differ the model has one definition per file (the         *)
(* main.js one carries the suffix _main).                                  *)
(*                                                                         *)
(* JavaScript numbers are modelled as exact rationals plus NaN and the two *)
(* infinities; strings are sequences of one-character strings; a formatted *)
(* number is the record of its sign and its hundredths.                    *)
(***************************************************************************)
EXTENDS Integers, Sequences, FiniteSets, TLC

VARIABLES
    file,       \* the source file being run: "part_000" or "main.js"
    pc,         \* the step the run is at
    rawRows,    \* the rows handed to cleanAndPrepareData
    cleanRun,   \* the outcome of cleanAndPrepareData(rawRows)
    data,       \* the cleaned project set handed to a report generator
    report,     \* the rows the report generator returned
    arr,        \* the array handed to median
    medianOut,  \* the number median returned
    loadedData, \* the global loadedData of the running program
    tries,      \* the try blocks of main that enclose the main being run
    console,    \* the message the last choice handled ended on
    written     \* the files written so far, in order, each with its content

vars == <<file, pc, rawRows, cleanRun, data, report, arr, medianOut,
          loadedData, tries, console, written>>

\* the variables of the running program, and those of a single call
program == <<loadedData, tries, console, written>>
call == <<cleanRun, data, report, arr, medianOut>>

Files == {"part_000", "main.js"}

None == [t |-> "none"]

\* no program is running: a single function is called
NoProgram == loadedData = None /\ tries = None /\ console = None /\ written = None

-----------------------------------------------------------------------------
(* Bounds of the model *)

MaxRows == 2          \* raw rows per cleaning run
Today == 7            \* the day number dayjs() returns for the current time
MaxArr == 4           \* length of the array given to median
MaxProjects == 3      \* cleaned projects given to the regional / trend report
MaxContractors == 17  \* contractors in the data given to the contractor report
MaxDigits == 17       \* digits String() writes after the point of a number
MaxTries == 2         \* nested calls of main, each awaited in a try block
MaxWritten == 8       \* files written before generateReports is called no more

-----------------------------------------------------------------------------
(* JavaScript numbers *)

Abs(i) == IF i < 0 THEN -i ELSE i

RECURSIVE GCD(_, _)
GCD(a, b) == IF b = 0 THEN a ELSE GCD(b, a % b)

NaN == [k |-> "nan", n |-> 0, d |-> 1]
PosInf == [k |-> "inf", n |-> 1, d |-> 1]
NegInf == [k |-> "inf", n |-> -1, d |-> 1]

\* the rational n/d (d > 0) in lowest terms
Fin(n, d) ==
    LET g == GCD(Abs(n), d)
    IN  [k |-> "fin", n |-> n \div g, d |-> d \div g]

Int2Num(i) == [k |-> "fin", n |-> i, d |-> 1]
Zero == Int2Num(0)

isNaN(x) == x.k = "nan"
isFinite(x) == x.k = "fin"

\* sign of a number that is not NaN
Sgn(x) == IF x.n > 0 THEN 1 ELSE IF x.n < 0 THEN -1 ELSE 0

NumNeg(x) == IF x.k = "nan" THEN NaN ELSE [x EXCEPT !.n = -x.n]

NumAdd(x, y) ==
    IF x.k = "nan" \/ y.k = "nan" THEN NaN
    ELSE IF x.k = "inf" /\ y.k = "inf" THEN (IF x.n = y.n THEN x ELSE NaN)
    ELSE IF x.k = "inf" THEN x
    ELSE IF y.k = "inf" THEN y
    ELSE LET g == GCD(x.d, y.d)
         IN  Fin(x.n * (y.d \div g) + y.n * (x.d \div g), (x.d \div g) * y.d)

NumSub(x, y) == NumAdd(x, NumNeg(y))

\* the product of two rationals, cancelling before multiplying
FinMul(xn, xd, yn, yd) ==
    LET g1 == GCD(Abs(xn), yd)
        g2 == GCD(Abs(yn), xd)
    IN  [k |-> "fin", n |-> (xn \div g1) * (yn \div g2), d |-> (xd \div g2) * (yd \div g1)]

NumMul(x, y) ==
    IF x.k = "nan" \/ y.k = "nan" THEN NaN
    ELSE IF x.k = "inf" \/ y.k = "inf"
         THEN (IF Sgn(x) * Sgn(y) = 0 THEN NaN
               ELSE IF Sgn(x) * Sgn(y) > 0 THEN PosInf ELSE NegInf)
    ELSE FinMul(x.n, x.d, y.n, y.d)

NumDiv(x, y) ==
    IF x.k = "nan" \/ y.k = "nan" THEN NaN
    ELSE IF x.k = "inf" /\ y.k = "inf" THEN NaN
    ELSE IF x.k = "inf" THEN (IF Sgn(x) * Sgn(y) >= 0 THEN x ELSE NumNeg(x))
    ELSE IF y.k = "inf" THEN Zero
    ELSE IF y.n = 0
         THEN (IF x.n = 0 THEN NaN ELSE IF x.n > 0 THEN PosInf ELSE NegInf)
    ELSE IF y.n > 0 THEN FinMul(x.n, x.d, y.d, y.n)
    ELSE FinMul(x.n, x.d, -y.d, -y.n)

\* x < y as JavaScript evaluates it: false when either side is NaN
NumLt(x, y) ==
    IF x.k = "nan" \/ y.k = "nan" THEN FALSE
    ELSE IF x.k = "inf" THEN x.n < 0 /\ ~(y.k = "inf" /\ y.n < 0)
    ELSE IF y.k = "inf" THEN y.n > 0
    ELSE LET g == GCD(x.d, y.d)
         IN  x.n * (y.d \div g) < y.n * (x.d \div g)

NumGt(x, y) == NumLt(y, x)
NumLe(x, y) == ~isNaN(x) /\ ~isNaN(y) /\ ~NumLt(y, x)

NumAbs(x) == IF x.k = "nan" THEN NaN ELSE [x EXCEPT !.n = Abs(x.n)]

\* Math.min / Math.max of two numbers
MathMin(x, y) == IF isNaN(x) \/ isNaN(y) THEN NaN ELSE IF NumLt(y, x) THEN y ELSE x
MathMax(x, y) == IF isNaN(x) \/ isNaN(y) THEN NaN ELSE IF NumLt(x, y) THEN y ELSE x

\* a value is falsy as a number: 0 or NaN
NumFalsy(x) == isNaN(x) \/ (x.k = "fin" /\ x.n = 0)

-----------------------------------------------------------------------------
(* Formatted numbers.  A decimal string with two fraction digits is the     *)
(* record of its sign, its hundredths and whether thousands separators were *)
(* inserted; "NaN" and the infinity sign are strings of their own.          *)

DecStr(neg, h, grouped) ==
    [t |-> "dec", neg |-> neg, h |-> h, comma |-> grouped /\ h >= 100000]
NaNStr == [t |-> "NaN", neg |-> FALSE, h |-> 0, comma |-> FALSE]
\* "Infinity" is what toFixed writes, the infinity sign what toLocaleString writes
InfinityStr(neg) == [t |-> "Infinity", neg |-> neg, h |-> 0, comma |-> FALSE]
InfSignStr(neg) == [t |-> "infsign", neg |-> neg, h |-> 0, comma |-> FALSE]

\* the string "0.00"
ZeroStr == DecStr(FALSE, 0, FALSE)

\* |x| in hundredths, rounded to the nearest, a tie going away from zero
Hundredths(x) ==
    (Abs(x.n) \div x.d) * 100 + (((Abs(x.n) % x.d) * 200 + x.d) \div (2 * x.d))

\* Number.prototype.toFixed(2)
toFixed(x) ==
    IF x.k = "nan" THEN NaNStr
    ELSE IF x.k = "inf" THEN InfinityStr(x.n < 0)
    ELSE DecStr(x.n < 0, Hundredths(x), FALSE)

\* Number.prototype.toLocaleString("en-US", two fraction digits)
toLocaleString(x) ==
    IF x.k = "nan" THEN NaNStr
    ELSE IF x.k = "inf" THEN InfSignStr(x.n < 0)
    ELSE DecStr(x.n < 0, Hundredths(x), TRUE)

\* the string read back as a number (Number(s), or s in an arithmetic
\* expression): a string holding a thousands separator is not a number
StrToNum(s) ==
    IF s.t = "dec"
    THEN IF s.comma THEN NaN ELSE Fin(IF s.neg THEN -s.h ELSE s.h, 100)
    ELSE IF s.t = "Infinity" THEN (IF s.neg THEN NegInf ELSE PosInf)
    ELSE NaN

\* the value a decimal string displays, in hundredths
Shown(s) == IF s.neg THEN -s.h ELSE s.h

formatNumber(n) == IF isNaN(n) THEN ZeroStr ELSE toLocaleString(n)

-----------------------------------------------------------------------------
(* Values of a raw row's fields, and strings *)

Undefined == [t |-> "undefined"]                   \* the column is missing
Null == [t |-> "null"]
Str(chars) == [t |-> "string", s |-> chars]         \* a string, as its characters
\* a string that spells the calendar date of day number d, e.g. "2021-03-05"
DateStr(d) == [t |-> "datestring", day |-> d]
\* a valid dayjs object holding day number d
Dayjs(d) == [t |-> "dayjs", day |-> d]

Digits == {"0", "1", "2", "3", "4", "5", "6", "7", "8", "9"}
DigitVal == [c \in Digits |->
    CASE c = "0" -> 0 [] c = "1" -> 1 [] c = "2" -> 2 [] c = "3" -> 3 [] c = "4" -> 4
      [] c = "5" -> 5 [] c = "6" -> 6 [] c = "7" -> 7 [] c = "8" -> 8 [] c = "9" -> 9]
WhiteSpace == {" "}

Drop(s, k) == SubSeq(s, k + 1, Len(s))

RECURSIVE Pow10(_)
Pow10(k) == IF k = 0 THEN 1 ELSE 10 * Pow10(k - 1)

\* String.prototype.trim
RECURSIVE TrimLeft(_)
TrimLeft(s) == IF s # <<>> /\ Head(s) \in WhiteSpace THEN TrimLeft(Tail(s)) ELSE s
RECURSIVE TrimRight(_)
TrimRight(s) ==
    IF s # <<>> /\ s[Len(s)] \in WhiteSpace THEN TrimRight(SubSeq(s, 1, Len(s) - 1)) ELSE s
trim(s) == TrimRight(TrimLeft(s))

\* the number of leading digits of s, and the value of a digit string
RECURSIVE DigitRun(_)
DigitRun(s) == IF s # <<>> /\ Head(s) \in Digits THEN 1 + DigitRun(Tail(s)) ELSE 0
RECURSIVE DigitsValue(_)
DigitsValue(s) ==
    IF s = <<>> THEN 0 ELSE DigitsValue(SubSeq(s, 1, Len(s) - 1)) * 10 + DigitVal[s[Len(s)]]

\* s.replace(/,/g, "")
RECURSIVE StripCommas(_)
StripCommas(s) ==
    IF s = <<>> THEN <<>>
    ELSE IF Head(s) = "," THEN StripCommas(Tail(s))
    ELSE <<Head(s)>> \o StripCommas(Tail(s))

DigitChar == <<"0", "1", "2", "3", "4", "5", "6", "7", "8", "9">>

\* String(n) for an integer n >= 0
RECURSIVE IntChars(_)
IntChars(n) ==
    IF n < 10 THEN <<DigitChar[n + 1]>>
    ELSE Append(IntChars(n \div 10), DigitChar[(n % 10) + 1])

\* the digits after the point of r / d (r < d), at most k of them
RECURSIVE FracChars(_, _, _)
FracChars(r, d, k) ==
    IF r = 0 \/ k = 0 THEN <<>>
    ELSE <<DigitChar[((r * 10) \div d) + 1]>> \o FracChars((r * 10) % d, d, k - 1)

\* the point and the digits after it, when there are any
PointAndFraction(r, d) == IF r = 0 THEN <<>> ELSE <<".">> \o FracChars(r, d, MaxDigits)

\* String(x) without the digits after the point
NumChars_noFraction(x) ==
    IF isNaN(x) THEN <<"N", "a", "N">>
    ELSE IF ~isFinite(x)
    THEN (IF x.n < 0 THEN <<"-">> ELSE <<>>) \o <<"I", "n", "f", "i", "n", "i", "t", "y">>
    ELSE (IF x.n < 0 THEN <<"-">> ELSE <<>>) \o IntChars(Abs(x.n) \div x.d)

\* String(x) for a number x, in decimal notation
NumChars(x) ==
    IF isNaN(x) THEN <<"N", "a", "N">>
    ELSE IF ~isFinite(x)
    THEN (IF x.n < 0 THEN <<"-">> ELSE <<>>) \o <<"I", "n", "f", "i", "n", "i", "t", "y">>
    ELSE (IF x.n < 0 THEN <<"-">> ELSE <<>>)
             \o IntChars(Abs(x.n) \div x.d) \o PointAndFraction(Abs(x.n) % x.d, x.d)

\* a value is a number: a field of a cleaned project that holds one
IsNumber(v) == "k" \in DOMAIN v

\* the characters of String(v) for a value
ToChars(v) ==
    IF IsNumber(v) THEN NumChars(v)
    ELSE CASE v.t = "string" -> v.s
           [] v.t = "undefined" -> <<"u", "n", "d", "e", "f", "i", "n", "e", "d">>
           [] v.t = "null" -> <<"n", "u", "l", "l">>

\* the sign a string starts with, and the string without it
SignOf(t) == IF t # <<>> /\ Head(t) = "-" THEN -1 ELSE 1
Unsigned(t) == IF t # <<>> /\ Head(t) \in {"-", "+"} THEN Tail(t) ELSE t

\* parseInt of a string: leading white space, a sign, then the longest run of
\* decimal digits (k of them, at the head of u); NaN when there is no digit
IntOfDigits(sign, u, k) ==
    IF k = 0 THEN NaN ELSE Int2Num(sign * DigitsValue(SubSeq(u, 1, k)))
ParseIntChars(s) ==
    IntOfDigits(SignOf(TrimLeft(s)), Unsigned(TrimLeft(s)), DigitRun(Unsigned(TrimLeft(s))))

\* parseFloat of a string: leading white space, a sign, digits (k of them, at
\* the head of u), and an optional fraction (a point and f digits, at the head
\* of r); NaN when there is no digit
FractionRun(r) == IF r # <<>> /\ Head(r) = "." THEN DigitRun(Tail(r)) ELSE 0
FloatOfParts(sign, u, k, r, f) ==
    IF k = 0 /\ f = 0 THEN NaN
    ELSE Fin(sign * (DigitsValue(SubSeq(u, 1, k)) * Pow10(f)
                        + DigitsValue(SubSeq(r, 2, f + 1))),
             Pow10(f))
FloatOfDigits(sign, u, k) == FloatOfParts(sign, u, k, Drop(u, k), FractionRun(Drop(u, k)))
ParseFloatChars(s) ==
    FloatOfDigits(SignOf(TrimLeft(s)), Unsigned(TrimLeft(s)), DigitRun(Unsigned(TrimLeft(s))))

parseInt(v) == ParseIntChars(ToChars(v))

\* isNaN(n) ? 0 : n
ZeroIfNaN(n) == IF isNaN(n) THEN Zero ELSE n

\* (v || "").toString(): undefined, null, the empty string, 0 and NaN are falsy
OrEmpty(v) ==
    IF IsNumber(v) THEN (IF NumFalsy(v) THEN <<>> ELSE NumChars(v))
    ELSE IF v.t \in {"undefined", "null"} THEN <<>>
    ELSE v.s

parseFloatSafe(v) == ZeroIfNaN(ParseFloatChars(StripCommas(OrEmpty(v))))

\* dayjs(v): the current time for undefined, the date for a date string or a
\* dayjs object, an invalid date for null and for any other string
parseDateSafe(v) ==
    CASE v.t = "undefined" -> Dayjs(Today)
      [] v.t = "datestring" -> Dayjs(v.day)
      [] v.t = "dayjs" -> Dayjs(v.day)
      [] OTHER -> Null

\* a.diff(b, "day") for a valid dayjs object a: NaN when dayjs(b) is invalid
diff(a, b) ==
    LET that == parseDateSafe(b)
    IN  IF that.t = "dayjs" THEN Int2Num(a.day - that.day) ELSE NaN

\* row.X?.trim() || dflt
TrimOr(v, dflt) ==
    IF v.t \in {"undefined", "null"} THEN dflt
    ELSE IF trim(v.s) = <<>> THEN dflt ELSE trim(v.s)

Unknown == <<"U", "n", "k", "n", "o", "w", "n">>
UnknownContractor == Unknown \o <<" ">> \o <<"C", "o", "n", "t", "r", "a", "c", "t", "o", "r">>
Unspecified == <<"U", "n", "s", "p", "e", "c", "i", "f", "i", "e", "d">>

-----------------------------------------------------------------------------
(* Array.prototype.sort(comparefn) as the engine (V8) runs it on an array  *)
(* shorter than 64: the initial run is found (and reversed if descending),  *)
(* then the rest is inserted by binary insertion.  A comparefn result of    *)
(* NaN counts as 0.                                                         *)

RECURSIVE Reverse(_)
Reverse(s) == IF s = <<>> THEN <<>> ELSE Append(Reverse(Tail(s)), Head(s))

\* The array is sorted as the sequence w of the indices its elements have in
\* the original; less[i][j] says that comparefn of the original's elements i and
\* j is below 0.

\* the last index of the run w[1], w[2], ...
RECURSIVE RunEnd(_, _, _, _)
RunEnd(w, less, idx, desc) ==
    IF idx > Len(w) THEN Len(w)
    ELSE IF desc /\ ~less[w[idx]][w[idx - 1]] THEN idx - 1
    ELSE IF ~desc /\ less[w[idx]][w[idx - 1]] THEN idx - 1
    ELSE RunEnd(w, less, idx + 1, desc)

\* the number of elements of w[1..right] that the pivot is inserted after
RECURSIVE InsertionPoint(_, _, _, _, _)
InsertionPoint(w, less, pivot, left, right) ==
    IF left >= right THEN left
    ELSE LET mid == left + ((right - left) \div 2)
         IN  IF less[pivot][w[mid + 1]]
             THEN InsertionPoint(w, less, pivot, left, mid)
             ELSE InsertionPoint(w, less, pivot, mid + 1, right)

\* w[1..start] is sorted; insert w[start + 1], w[start + 2], ...
RECURSIVE BinaryInsertionSort(_, _, _)
BinaryInsertionSort(w, less, start) ==
    IF start >= Len(w) THEN w
    ELSE LET pivot == w[start + 1]
             left == InsertionPoint(w, less, pivot, 0, start)
             moved == SubSeq(w, 1, left) \o <<pivot>> \o SubSeq(w, left + 1, start)
                         \o SubSeq(w, start + 2, Len(w))
         IN  BinaryInsertionSort(moved, less, start + 1)

\* Array.prototype.sort with the comparefn of the table less
Sort(s, less) ==
    LET ids == [i \in 1..Len(s) |-> i]
        desc == less[2][1]
        run == RunEnd(ids, less, 3, desc)
        made == IF desc
                THEN Reverse(SubSeq(ids, 1, run)) \o SubSeq(ids, run + 1, Len(ids))
                ELSE ids
        order == BinaryInsertionSort(made, less, run)
    IN  IF Len(s) < 2 THEN s ELSE [k \in 1..Len(s) |-> s[order[k]]]

-----------------------------------------------------------------------------
(* Scalar utilities *)

\* arr.reduce((a, b) => a + b, 0)
\* (the numbers are exact, so that the sum does not depend on the order of the
\* additions: it is taken by halves, which keeps the evaluation shallow)
RECURSIVE SumTo(_, _, _)
SumTo(s, lo, hi) ==
    IF hi < lo THEN Zero
    ELSE IF hi = lo THEN NumAdd(Zero, s[lo])
    ELSE NumAdd(SumTo(s, lo, (lo + hi) \div 2), SumTo(s, ((lo + hi) \div 2) + 1, hi))
Sum(s) == SumTo(s, 1, Len(s))

\* (a, b) => a - b
Ascending(a, b) == NumLt(NumSub(a, b), Zero)

\* arr.sort((a, b) => a - b)
SortAscending(a) ==
    Sort(a, [i \in 1..Len(a) |-> [j \in 1..Len(a) |-> Ascending(a[i], a[j])]])

\* arr.sort((a, b) => a - b), without the copy: arr itself is sorted
SortInPlace(a) == [s |-> SortAscending(a), arr |-> SortAscending(a)]

\* [...arr].sort((a, b) => a - b): the sorted copy, and arr as the call leaves it
SortedCopy(a) == [s |-> SortAscending(a), arr |-> a]

\* s.length % 2 ? s[mid] : (s[mid - 1] + s[mid]) / 2, mid being
\* Math.floor(s.length / 2) and the indices counted from 0
Middle(s) ==
    IF Len(s) % 2 = 1 THEN s[(Len(s) \div 2) + 1]
    ELSE NumDiv(NumAdd(s[Len(s) \div 2], s[(Len(s) \div 2) + 1]), Int2Num(2))

\* Number(median.toFixed(2)) of the sorted array c.s, and arr as the sort left it
MedianOfSorted(c) == [value |-> StrToNum(toFixed(Middle(c.s))), arr |-> c.arr]

\* median(arr): the number returned, and arr as the call leaves it
median(a) ==
    IF Len(a) = 0 THEN [value |-> Zero, arr |-> a]
    ELSE MedianOfSorted(SortedCopy(a))

-----------------------------------------------------------------------------
(* cleanAndPrepareData *)

\* One iteration of the loop over the raw rows, its five values parsed: the row
\* is skipped, or the iteration throws, or a cleaned project is pushed.
\* `const ActualCompletionDate` is assigned to when the completion date did
\* not parse: that assignment throws a TypeError.
Iteration(row, FundingYear, ApprovedBudgetForContract, ContractCost, StartDate, ActualCompletionDate) ==
    IF NumFalsy(FundingYear) \/ NumLt(FundingYear, Int2Num(2021))
        \/ NumGt(FundingYear, Int2Num(2023))
    THEN [o |-> "continue"]
    ELSE IF NumLe(ApprovedBudgetForContract, Zero) THEN [o |-> "continue"]
    ELSE IF NumLe(ContractCost, Zero) THEN [o |-> "continue"]
    ELSE IF ActualCompletionDate = Null THEN [o |-> "throw"]
    ELSE [o |-> "push",
          p |-> [row |-> row,
                 ApprovedBudgetForContract |-> ApprovedBudgetForContract,
                 ContractCost |-> ContractCost,
                 StartDate |-> StartDate,
                 ActualCompletionDate |-> ActualCompletionDate,
                 FundingYear |-> FundingYear,
                 Region |-> TrimOr(row.Region, Unknown),
                 MainIsland |-> TrimOr(row.MainIsland, Unknown),
                 Contractor |-> TrimOr(row.Contractor, UnknownContractor),
                 TypeOfWork |-> TrimOr(row.TypeOfWork, Unspecified),
                 CostSavings |-> NumSub(ApprovedBudgetForContract, ContractCost),
                 CompletionDelayDays |-> diff(ActualCompletionDate, StartDate)]]

\* the iteration of a row
CleanRow(row) ==
    Iteration(row, parseInt(row.FundingYear),
              parseFloatSafe(row.ApprovedBudgetForContract),
              parseFloatSafe(row.ContractCost),
              parseDateSafe(row.StartDate),
              parseDateSafe(row.ActualCompletionDate))

Pushed(r) == r.o = "push"

\* cleaned, when no iteration threw
Projects(pushed) == [i \in 1..Len(pushed) |-> pushed[i].p]

\* The call, from the outcome of the iteration of each row.  It throws if some
\* row's iteration throws (no earlier row ends the loop); otherwise it returns
\* the projects pushed, in the order of their rows.
Returned(each) ==
    IF \E i \in 1..Len(each) : each[i].o = "throw"
    THEN [threw |-> TRUE, cleaned |-> <<>>]
    ELSE [threw |-> FALSE, cleaned |-> Projects(SelectSeq(each, Pushed))]

cleanAndPrepareData(rows) == Returned([i \in 1..Len(rows) |-> CleanRow(rows[i])])

-----------------------------------------------------------------------------
(* The raw rows the cleaner is run on *)

S2021 == Str(<<"2", "0", "2", "1">>)
S2022 == Str(<<"2", "0", "2", "2">>)
S2023x == Str(<<" ", "2", "0", "2", "3", "x">>)
S2024 == Str(<<"2", "0", "2", "4">>)
SEmpty == Str(<<>>)
SJunk == Str(<<"n", "/", "a">>)
SNCR == Str(<<" ", "N", "C", "R", " ">>)
SLuzon == Str(<<"L", "u", "z", "o", "n">>)
SBlank == Str(<<" ">>)
SAcme == Str(<<"A", "c", "m", "e">>)
SDike == Str(<<"D", "i", "k", "e">>)

\* FundingYear, ApprovedBudgetForContract, ContractCost and the four texts
NumberProfiles == {
    <<S2021, Str(<<"1", ",", "5", "0", "0", ".", "5">>), Str(<<"1", ",", "2", "0", "0">>),
      SNCR, SLuzon, SAcme, SDike>>,
    <<S2023x, Str(<<"1", "0", "0">>), Str(<<"1", "2", "0", ".", "2", "5">>),
      SEmpty, Undefined, SBlank, Undefined>>,
    <<S2024, Str(<<"1", "0", "0">>), Str(<<"8", "0">>), SNCR, SLuzon, SAcme, SDike>>,
    <<Undefined, Str(<<"1", "0", "0">>), Str(<<"8", "0">>), SNCR, SLuzon, SAcme, SDike>>,
    <<S2022, Str(<<"a", "b", "c">>), Str(<<"8", "0">>), SNCR, SLuzon, SAcme, SDike>>,
    <<S2022, Str(<<"1", "0", "0">>), Str(<<"-", "5">>), SNCR, SLuzon, SAcme, SDike>> }

\* StartDate and ActualCompletionDate
DateProfiles == {
    <<DateStr(3), DateStr(40)>>,
    <<DateStr(10), DateStr(4)>>,
    <<DateStr(3), SEmpty>>,
    <<DateStr(3), SJunk>>,
    <<SEmpty, DateStr(9)>>,
    <<Undefined, DateStr(9)>>,
    <<DateStr(3), Undefined>>,
    <<SJunk, SEmpty>> }

RowSet ==
    { [FundingYear |-> n[1], ApprovedBudgetForContract |-> n[2], ContractCost |-> n[3],
       StartDate |-> d[1], ActualCompletionDate |-> d[2],
       Region |-> n[4], MainIsland |-> n[5], Contractor |-> n[6], TypeOfWork |-> n[7]] :
      n \in NumberProfiles, d \in DateProfiles }

RECURSIVE SeqsUpTo(_, _)
SeqsUpTo(S, k) ==
    IF k = 0 THEN {<<>>}
    ELSE LET shorter == SeqsUpTo(S, k - 1)
         IN  shorter \cup {Append(q, x) : q \in {r \in shorter : Len(r) = k - 1}, x \in S}

-----------------------------------------------------------------------------
(* Specification of a cleaning run: main's choice 1 after the file is read. *)

InitClean ==
    /\ file \in Files
    /\ pc = "clean"
    /\ rawRows \in SeqsUpTo(RowSet, MaxRows)
    /\ cleanRun = None
    /\ data = None /\ report = None /\ arr = None /\ medianOut = None
    /\ NoProgram

Clean ==
    /\ pc = "clean"
    /\ cleanRun' = cleanAndPrepareData(rawRows)
    /\ pc' = "cleaned"
    /\ UNCHANGED <<file, rawRows, data, report, arr, medianOut>>
    /\ UNCHANGED program

NextClean == Clean

SpecClean == InitClean /\ [][NextClean]_vars

\* the row passes the year, budget and cost checks
Accepted(row) ==
    /\ parseInt(row.FundingYear) \in {Int2Num(2021), Int2Num(2022), Int2Num(2023)}
    /\ NumGt(parseFloatSafe(row.ApprovedBudgetForContract), Zero)
    /\ NumGt(parseFloatSafe(row.ContractCost), Zero)

\* the raw rows the projects of the output were made from, in order
RowsOf(cleaned) == [i \in 1..Len(cleaned) |-> cleaned[i].row]

\* C1: a CleanedProject is produced for a raw row if and only if the row's
\* fundingYear parses to 2021, 2022 or 2023 and its budget and cost parse to
\* strictly positive numbers, whatever its two dates are.
C1_ProducedIffAccepted ==
    pc = "cleaned" => RowsOf(cleanRun.cleaned) = SelectSeq(rawRows, Accepted)

\* C2: an accepted row whose completion date is missing or unparseable yields
\* a project whose completionDate equals its startDate and whose delay is 0.
C2_CompletionImputed ==
    pc = "cleaned" =>
        \A i \in 1..Len(rawRows) :
            (Accepted(rawRows[i]) /\ rawRows[i].ActualCompletionDate.t # "datestring") =>
                \E j \in 1..Len(cleanRun.cleaned) :
                    /\ cleanRun.cleaned[j].row = rawRows[i]
                    /\ cleanRun.cleaned[j].ActualCompletionDate = cleanRun.cleaned[j].StartDate
                    /\ cleanRun.cleaned[j].CompletionDelayDays = Zero

\* C3: cleanAndPrepareData returns normally for every sequence of raw rows; a
\* bad row is dropped and never makes the call throw.
C3_CleanerNeverThrows == pc = "cleaned" => ~cleanRun.threw

\* C4: every project of the cleaner's output has a completionDelayDays that is
\* a defined integer, also when its startDate is null.
C4_DelayIsInteger ==
    pc = "cleaned" =>
        \A j \in 1..Len(cleanRun.cleaned) :
            /\ isFinite(cleanRun.cleaned[j].CompletionDelayDays)
            /\ cleanRun.cleaned[j].CompletionDelayDays.d = 1

-----------------------------------------------------------------------------
(* average, one definition per file *)

\* the entries of s that are not NaN
NotNaN(s) == SelectSeq(s, LAMBDA x : ~isNaN(x))

\* part_000: the mean of the entries that are numbers; 0 when there is none
average(a) ==
    IF Len(a) = 0 THEN Zero
    ELSE IF Len(NotNaN(a)) = 0 THEN Zero
    ELSE NumDiv(Sum(NotNaN(a)), Int2Num(Len(NotNaN(a))))

\* main.js: the sum of all entries over their number; 0 for an empty array
average_main(a) == IF Len(a) = 0 THEN Zero ELSE NumDiv(Sum(a), Int2Num(Len(a)))

averageOf(f, a) == IF f = "part_000" THEN average(a) ELSE average_main(a)

-----------------------------------------------------------------------------
(* generateReport1: the regional report *)

Bar == <<"|">>

\* `${r.Region}|${r.MainIsland}`
RegionKey(r) == r.Region \o Bar \o r.MainIsland

\* The keys a grouping loop adds to its map, in the order it adds them: of the
\* keys of the elements, each one that no earlier element has.
FirstKeys(keys) ==
    LET firsts == SelectSeq([i \in 1..Len(keys) |-> i],
                            LAMBDA i : \A j \in 1..(i - 1) : keys[j] # keys[i])
    IN  [g \in 1..Len(firsts) |-> keys[firsts[g]]]

\* the elements of d the loop puts under a key, in their order; keys[i] is the
\* key of d[i]
Members(d, keys, key) ==
    LET at == SelectSeq([i \in 1..Len(d) |-> i], LAMBDA i : keys[i] = key)
    IN  [k \in 1..Len(at) |-> d[at[k]]]

\* regionMap when the project that creates a group is not pushed to it
RegionMap_skipFirst(d) ==
    LET all == [i \in 1..Len(d) |-> RegionKey(d[i])]
        keys == FirstKeys(all)
    IN  [g \in 1..Len(keys) |->
            LET m == Members(d, all, keys[g])
            IN  [key |-> keys[g], Region |-> m[1].Region, MainIsland |-> m[1].MainIsland,
                 budgets |-> [i \in 1..(Len(m) - 1) |-> m[i + 1].ApprovedBudgetForContract],
                 savings |-> [i \in 1..Len(m) |-> m[i].CostSavings],
                 delays |-> [i \in 1..Len(m) |-> m[i].CompletionDelayDays]]]

\* the first loop: regionMap, as its groups in the order their keys were added
RegionMap(d) ==
    LET all == [i \in 1..Len(d) |-> RegionKey(d[i])]
        keys == FirstKeys(all)
    IN  [g \in 1..Len(keys) |->
            LET m == Members(d, all, keys[g])
            IN  [key |-> keys[g], Region |-> m[1].Region, MainIsland |-> m[1].MainIsland,
                 budgets |-> [i \in 1..Len(m) |-> m[i].ApprovedBudgetForContract],
                 savings |-> [i \in 1..Len(m) |-> m[i].CostSavings],
                 delays |-> [i \in 1..Len(m) |-> m[i].CompletionDelayDays]]]

\* delays.filter((d) => d > 30).length
Over30(delays) == Cardinality({i \in 1..Len(delays) : NumGt(delays[i], Int2Num(30))})

\* (delays over 30).length / delays.length * 100
DelayOver30(grp) ==
    NumMul(NumDiv(Int2Num(Over30(grp.delays)), Int2Num(Len(grp.delays))),
           Int2Num(100))

\* if (!isFinite(efficiency) || efficiency < 0) efficiency = 0
ZeroUnlessFiniteNonNegative(e) == IF ~isFinite(e) \/ NumLt(e, Zero) THEN Zero ELSE e

\* part_000: median(savings) / avgDelay, 0 when not finite or negative
Efficiency(grp) ==
    ZeroUnlessFiniteNonNegative(NumDiv(median(grp.savings).value, average(grp.delays)))

\* main.js: (median(savings) / avgDelay) * 100, 0 when not finite or negative,
\* then held within 0 and 100
Efficiency_main(grp) ==
    MathMin(Int2Num(100),
            MathMax(Zero,
                    ZeroUnlessFiniteNonNegative(
                        NumMul(NumDiv(median(grp.savings).value,
                                      average_main(grp.delays)),
                               Int2Num(100)))))

\* the row of a group; EfficiencyScore is filled in by the caller
RegionRow(f, grp, score) ==
    [Region |-> grp.Region,
     MainIsland |-> grp.MainIsland,
     TotalApprovedBudget |-> formatNumber(Sum(grp.budgets)),
     MedianCostSavings |-> formatNumber(median(grp.savings).value),
     AvgCompletionDelayDays |-> formatNumber(averageOf(f, grp.delays)),
     DelayOver30Percent |-> formatNumber(DelayOver30(grp)),
     EfficiencyScore |-> score]

\* Math.min(...a) and Math.max(...a): Infinity and -Infinity for no argument
RECURSIVE MinOf(_)
MinOf(a) == IF a = <<>> THEN PosInf ELSE MathMin(Head(a), MinOf(Tail(a)))
RECURSIVE MaxOf(_)
MaxOf(a) == IF a = <<>> THEN NegInf ELSE MathMax(Head(a), MaxOf(Tail(a)))

\* part_000: the score of a raw efficiency on the 0-100 scale of the run
Normalize(e, minEff, maxEff) ==
    LET scaled == IF isFinite(e) /\ maxEff # minEff
                  THEN NumMul(NumDiv(NumSub(e, minEff), NumSub(maxEff, minEff)),
                              Int2Num(100))
                  ELSE Zero
    IN  StrToNum(toFixed(scaled))

\* (a, b) => b.EfficiencyScore - a.EfficiencyScore, the scores being numbers
ByScoreDesc(a, b) == NumLt(NumSub(b.EfficiencyScore, a.EfficiencyScore), Zero)

\* the same comparison in main.js, where the scores are formatted strings
ByScoreDesc_main(a, b) ==
    NumLt(NumSub(StrToNum(b.EfficiencyScore), StrToNum(a.EfficiencyScore)), Zero)

\* part_000: results as the map leaves it, EfficiencyScore the raw efficiency
Results1(groups) ==
    [i \in 1..Len(groups) |-> RegionRow("part_000", groups[i], Efficiency(groups[i]))]

\* results.map(r => r.EfficiencyScore)
efficiencies(results) == [i \in 1..Len(results) |-> results[i].EfficiencyScore]

\* results.forEach: each EfficiencyScore normalized between minEff and maxEff
NormalizedBetween(results, minEff, maxEff) ==
    [i \in 1..Len(results) |->
        [results[i] EXCEPT !.EfficiencyScore = Normalize(@, minEff, maxEff)]]

NormalizeScores(results) ==
    NormalizedBetween(results, MinOf(efficiencies(results)), MaxOf(efficiencies(results)))

\* results left in the order of the map, not sorted
SortByScoreDesc_unsorted(results) == results

\* results.sort((a, b) => b.EfficiencyScore - a.EfficiencyScore)
SortByScoreDesc(results) ==
    Sort(results, [i \in 1..Len(results) |-> [j \in 1..Len(results) |->
                      ByScoreDesc(results[i], results[j])]])

\* part_000
generateReport1(d) == SortByScoreDesc(NormalizeScores(Results1(RegionMap(d))))

\* main.js: results as the map leaves it, EfficiencyScore a formatted string
Results1_main(groups) ==
    [i \in 1..Len(groups) |->
        RegionRow("main.js", groups[i], formatNumber(Efficiency_main(groups[i])))]

SortByScoreDesc_main(results) ==
    Sort(results, [i \in 1..Len(results) |-> [j \in 1..Len(results) |->
                      ByScoreDesc_main(results[i], results[j])]])

\* main.js
generateReport1_main(d) == SortByScoreDesc_main(Results1_main(RegionMap(d)))

-----------------------------------------------------------------------------
(* generateReport2: the contractor report *)

MinProjects == 5     \* .filter((c) => c.projects >= 5)
TopContractors == 15 \* .slice(0, 15)

ContractorKey(r) == r.Contractor

\* the first loop: contractorMap, as its groups in the order their keys were
\* added (no contractor name of the model is an integer index); a project with
\* an empty Contractor is skipped
ContractorMap(d) ==
    LET named == SelectSeq(d, LAMBDA r : r.Contractor # <<>>)
        all == [i \in 1..Len(named) |-> ContractorKey(named[i])]
        keys == FirstKeys(all)
    IN  [g \in 1..Len(keys) |->
            LET m == Members(named, all, keys[g])
            IN  [key |-> keys[g], Contractor |-> keys[g], projects |-> Len(m),
                 delays |-> [i \in 1..Len(m) |-> m[i].CompletionDelayDays],
                 totalSavings |-> Sum([i \in 1..Len(m) |-> m[i].CostSavings]),
                 totalCost |-> Sum([i \in 1..Len(m) |-> m[i].ContractCost])]]

\* the filter, one project short
AtLeastMinProjects_offByOne(c) == c.projects >= MinProjects - 1

\* .filter((c) => c.projects >= 5)
AtLeastMinProjects(c) == c.projects >= MinProjects

\* if (!isFinite(reliability)) reliability = 0
ZeroUnlessFinite(r) == IF ~isFinite(r) THEN Zero ELSE r

\* (1 - avgDelay / 90) * (totalSavings / totalCost) * 100, 0 when not finite
RawReliability(c, avgDelay) ==
    ZeroUnlessFinite(NumMul(NumMul(NumSub(Int2Num(1), NumDiv(avgDelay, Int2Num(90))),
                                   NumDiv(c.totalSavings, c.totalCost)),
                            Int2Num(100)))

\* the reliability without the cap
Reliability_uncapped(c) == RawReliability(c, average(c.delays))

\* part_000: capped at 100
Reliability(c) == MathMin(Int2Num(100), RawReliability(c, average(c.delays)))

\* main.js: held within 0 and 100
Reliability_main(c) ==
    MathMin(Int2Num(100), MathMax(Zero, RawReliability(c, average_main(c.delays))))

HighRisk == <<"H", "i", "g", "h", " ", "R", "i", "s", "k">>
LowRisk == <<"L", "o", "w", " ", "R", "i", "s", "k">>
OK == <<"O", "K">>

\* part_000: the row of a contractor, with the temporary _rawTotalCost
ContractorRow(c) ==
    [Contractor |-> c.Contractor,
     TotalCost |-> formatNumber(c.totalCost),
     NumProjects |-> c.projects,
     AvgDelay |-> formatNumber(average(c.delays)),
     TotalSavings |-> formatNumber(c.totalSavings),
     ReliabilityIndex |-> formatNumber(Reliability(c)),
     RiskFlag |-> IF NumLt(Reliability(c), Int2Num(50)) THEN HighRisk ELSE LowRisk,
     _rawTotalCost |-> c.totalCost]

\* main.js: the row of a contractor
ContractorRow_main(c) ==
    [Contractor |-> c.Contractor,
     Projects |-> c.projects,
     AvgDelay |-> formatNumber(average_main(c.delays)),
     TotalCostSavings |-> formatNumber(c.totalSavings),
     ReliabilityIndex |-> formatNumber(Reliability_main(c)),
     RiskFlag |-> IF NumLt(Reliability_main(c), Int2Num(50)) THEN HighRisk ELSE OK]

\* part_000: (a, b) => b._rawTotalCost - a._rawTotalCost
ByTotalCostDesc(a, b) == NumLt(NumSub(b._rawTotalCost, a._rawTotalCost), Zero)

\* main.js: (a, b) => b.TotalCostSavings - a.TotalCostSavings, on the formatted
\* strings
ByTotalCostSavingsDesc_main(a, b) ==
    NumLt(NumSub(StrToNum(b.TotalCostSavings), StrToNum(a.TotalCostSavings)), Zero)

\* .slice(0, 15)
Slice(a, k) == SubSeq(a, 1, IF Len(a) < k THEN Len(a) ELSE k)

\* delete c._rawTotalCost
DropRawTotalCost(c) == [f \in DOMAIN c \ {"_rawTotalCost"} |-> c[f]]

\* .map((c) => ...) of the contractors kept
Results2(kept) == [i \in 1..Len(kept) |-> ContractorRow(kept[i])]
Results2_main(kept) == [i \in 1..Len(kept) |-> ContractorRow_main(kept[i])]

\* .sort((a, b) => b._rawTotalCost - a._rawTotalCost)
SortByTotalCostDesc(rows) ==
    Sort(rows, [i \in 1..Len(rows) |-> [j \in 1..Len(rows) |->
                   ByTotalCostDesc(rows[i], rows[j])]])

\* main.js: .sort((a, b) => b.TotalCostSavings - a.TotalCostSavings)
SortByTotalCostSavingsDesc_main(rows) ==
    Sort(rows, [i \in 1..Len(rows) |-> [j \in 1..Len(rows) |->
                   ByTotalCostSavingsDesc_main(rows[i], rows[j])]])

\* .map(c => { delete c._rawTotalCost; return c; })
WithoutRawTotalCost(top) == [i \in 1..Len(top) |-> DropRawTotalCost(top[i])]

\* part_000
generateReport2(d) ==
    WithoutRawTotalCost(
        Slice(SortByTotalCostDesc(Results2(SelectSeq(ContractorMap(d), AtLeastMinProjects))),
              TopContractors))

\* main.js
generateReport2_main(d) ==
    Slice(SortByTotalCostSavingsDesc_main(
              Results2_main(SelectSeq(ContractorMap(d), AtLeastMinProjects))),
          TopContractors)

-----------------------------------------------------------------------------
(* generateReport3: the cost-trend report *)

\* `${r.FundingYear}|${r.TypeOfWork}`
TypeKey(r) == IntChars(r.FundingYear.n) \o Bar \o r.TypeOfWork

\* the first loop: typeMap, as its groups in the order their keys were added
TypeMap(d) ==
    LET all == [i \in 1..Len(d) |-> TypeKey(d[i])]
        keys == FirstKeys(all)
    IN  [g \in 1..Len(keys) |->
            LET m == Members(d, all, keys[g])
            IN  [key |-> keys[g], FundingYear |-> m[1].FundingYear,
                 TypeOfWork |-> m[1].TypeOfWork,
                 savings |-> [i \in 1..Len(m) |-> m[i].CostSavings]]]

\* savings.filter((s) => s < 0).length
Negative(savings) == Cardinality({i \in 1..Len(savings) : NumLt(savings[i], Zero)})

\* (savings below 0).length / savings.length * 100
OverrunRate(grp) ==
    NumMul(NumDiv(Int2Num(Negative(grp.savings)), Int2Num(Len(grp.savings))),
           Int2Num(100))

\* the groups of a funding year
OfYear(groups, year) == SelectSeq(groups, LAMBDA g : g.FundingYear = year)

\* all savings of a sequence of groups, one after the other
RECURSIVE AllSavings(_)
AllSavings(groups) ==
    IF groups = <<>> THEN <<>> ELSE Head(groups).savings \o AllSavings(Tail(groups))

\* x || 0
OrZero(x) == IF NumFalsy(x) THEN Zero ELSE x

\* yearTotals[year] / yearCounts[year], from all savings of the year
MeanOf(savings) == NumDiv(Sum(savings), Int2Num(Len(savings)))

\* part_000: weightedYearAvg[year] || 0, that is yearTotals[year] / yearCounts[year]
\* for a year that has a group
WeightedYearAvg(groups, year) ==
    IF OfYear(groups, year) = <<>> THEN Zero
    ELSE OrZero(MeanOf(AllSavings(OfYear(groups, year))))

\* main.js: average(avgSavingsByYear[year]), the mean of the year's group averages
GroupAvgOfYear_main(groups, year) ==
    LET g == OfYear(groups, year)
    IN  average_main([i \in 1..Len(g) |-> average_main(g[i].savings)])

\* main.js: average(avgSavingsByYear[2021] || [0])
Baseline_main(groups) ==
    IF OfYear(groups, Int2Num(2021)) = <<>> THEN average_main(<<Zero>>)
    ELSE GroupAvgOfYear_main(groups, Int2Num(2021))

\* the year's average as a percentage of the baseline, no year set apart
Change_ratio(year, yearAvg, baseline) ==
    NumMul(NumDiv(yearAvg, NumAbs(IF NumFalsy(baseline) THEN Int2Num(1) ELSE baseline)),
           Int2Num(100))

\* r.FundingYear === 2021 ? 0 : ((yearAvg - baseline) / Math.abs(baseline || 1)) * 100
Change(year, yearAvg, baseline) ==
    IF year = Int2Num(2021) THEN Zero
    ELSE NumMul(NumDiv(NumSub(yearAvg, baseline),
                       NumAbs(IF NumFalsy(baseline) THEN Int2Num(1) ELSE baseline)),
                Int2Num(100))

\* part_000: the row of a group, with the temporary _rawAvgSavings
TrendRow(groups, grp) ==
    [FundingYear |-> grp.FundingYear,
     TypeOfWork |-> grp.TypeOfWork,
     TotalProjects |-> Len(grp.savings),
     AvgCostSavings |-> formatNumber(average(grp.savings)),
     _rawAvgSavings |-> average(grp.savings),
     OverrunRate |-> formatNumber(IF Len(grp.savings) > 0 THEN OverrunRate(grp) ELSE Zero),
     YoYChange |-> toFixed(Change(grp.FundingYear,
                                  WeightedYearAvg(groups, grp.FundingYear),
                                  WeightedYearAvg(groups, Int2Num(2021))))]

\* main.js: the row of a group
TrendRow_main(groups, grp) ==
    [FundingYear |-> grp.FundingYear,
     TypeOfWork |-> grp.TypeOfWork,
     TotalProjects |-> Len(grp.savings),
     AvgCostSavings |-> formatNumber(average_main(grp.savings)),
     OverrunRate |-> formatNumber(OverrunRate(grp)),
     YoYChangePercent |-> toFixed(Change(grp.FundingYear,
                                         GroupAvgOfYear_main(groups, grp.FundingYear),
                                         Baseline_main(groups)))]

\* part_000: by FundingYear ascending, then by _rawAvgSavings descending
ByYearThenSavings(a, b) ==
    IF a.FundingYear # b.FundingYear
    THEN NumLt(NumSub(a.FundingYear, b.FundingYear), Zero)
    ELSE NumLt(NumSub(b._rawAvgSavings, a._rawAvgSavings), Zero)

\* main.js: a.FundingYear - b.FundingYear || b.AvgCostSavings - a.AvgCostSavings,
\* the latter on the formatted strings
ByYearThenSavings_main(a, b) ==
    IF ~NumFalsy(NumSub(a.FundingYear, b.FundingYear))
    THEN NumLt(NumSub(a.FundingYear, b.FundingYear), Zero)
    ELSE NumLt(NumSub(StrToNum(b.AvgCostSavings), StrToNum(a.AvgCostSavings)), Zero)

\* delete r._rawAvgSavings
DropRawAvgSavings(r) == [f \in DOMAIN r \ {"_rawAvgSavings"} |-> r[f]]

\* the map and the forEach that adds YoYChange
Results3(groups) == [i \in 1..Len(groups) |-> TrendRow(groups, groups[i])]
Results3_main(groups) == [i \in 1..Len(groups) |-> TrendRow_main(groups, groups[i])]

SortByYearThenSavings(results) ==
    Sort(results, [i \in 1..Len(results) |-> [j \in 1..Len(results) |->
                      ByYearThenSavings(results[i], results[j])]])

SortByYearThenSavings_main(results) ==
    Sort(results, [i \in 1..Len(results) |-> [j \in 1..Len(results) |->
                      ByYearThenSavings_main(results[i], results[j])]])

\* results.forEach(r => delete r._rawAvgSavings)
WithoutRawAvgSavings(sorted) == [i \in 1..Len(sorted) |-> DropRawAvgSavings(sorted[i])]

\* part_000
generateReport3(d) == WithoutRawAvgSavings(SortByYearThenSavings(Results3(TypeMap(d))))

\* main.js
generateReport3_main(d) == SortByYearThenSavings_main(Results3_main(TypeMap(d)))

-----------------------------------------------------------------------------
(* Specification of a call of median on an array of numbers. *)

\* numbers with at most three binary fraction digits, exact as doubles
MedianValues ==
    {Int2Num(1), Int2Num(2), Int2Num(3), Int2Num(4), Int2Num(5), Fin(-3, 8), Fin(17, 8)}

InitMedian ==
    /\ file \in Files
    /\ pc = "median"
    /\ arr \in SeqsUpTo(MedianValues, MaxArr)
    /\ medianOut = None
    /\ NoProgram
    /\ rawRows = None /\ cleanRun = None /\ data = None /\ report = None

Median ==
    /\ pc = "median"
    /\ medianOut' = median(arr).value
    /\ arr' = median(arr).arr
    /\ pc' = "done"
    /\ UNCHANGED <<file, rawRows, cleanRun, data, report>>
    /\ UNCHANGED program

NextMedian == Median

SpecMedian == InitMedian /\ [][NextMedian]_vars

Range(a) == {a[i] : i \in 1..Len(a)}
CountLt(a, x) == Cardinality({i \in 1..Len(a) : NumLt(a[i], x)})
CountLe(a, x) == Cardinality({i \in 1..Len(a) : NumLe(a[i], x)})
\* the k-th smallest element of a
Kth(a, k) == CHOOSE x \in Range(a) : CountLt(a, x) < k /\ k <= CountLe(a, x)
\* the middle element, or the mean of the two central elements
ExactMedian(a) ==
    IF Len(a) % 2 = 1 THEN Kth(a, Len(a) \div 2 + 1)
    ELSE NumDiv(NumAdd(Kth(a, Len(a) \div 2), Kth(a, Len(a) \div 2 + 1)), Int2Num(2))
\* r is a number of hundredths at most half a hundredth away from m
RoundedTo2(r, m) ==
    /\ isFinite(r) /\ 100 % r.d = 0
    /\ NumLe(NumAbs(NumSub(r, m)), Fin(1, 200))

\* C10 as stated: median returns 0 for an empty array and otherwise exactly the
\* middle element (odd length) or the mean of the two central elements (even
\* length) of the sorted array, and leaves its input as it was.
C10_MedianExact ==
    [][pc = "median" =>
        /\ arr' = arr
        /\ medianOut' = IF Len(arr) = 0 THEN Zero ELSE ExactMedian(arr)]_vars

\* C10 amended: median returns 0 for an empty array and otherwise the middle
\* element or the mean of the two central elements of the sorted array, rounded
\* to two decimal places, whatever the order of the input, and leaves its input
\* as it was.
C10_MedianRounded ==
    [][pc = "median" =>
        /\ arr' = arr
        /\ Len(arr) = 0 => medianOut' = Zero
        /\ Len(arr) > 0 => RoundedTo2(medianOut', ExactMedian(arr))]_vars

\* median([4, 2.125, 1, -0.375]) = 1.56: the mean 1.5625 of 1 and 2.125, rounded
C10_Witness ==
    /\ pc = "done"
    /\ arr = <<Int2Num(4), Fin(17, 8), Int2Num(1), Fin(-3, 8)>>
    /\ medianOut = Fin(39, 25)

-----------------------------------------------------------------------------
(* The cleaned project sets the report generators are run on.  Each is the  *)
(* output of cleanAndPrepareData on raw rows whose completion date parses.  *)

Raw(year, budget, cost, start, completion, region, island, contractor, type) ==
    [FundingYear |-> year, ApprovedBudgetForContract |-> budget, ContractCost |-> cost,
     StartDate |-> start, ActualCompletionDate |-> completion,
     Region |-> region, MainIsland |-> island, Contractor |-> contractor,
     TypeOfWork |-> type]

SR7 == Str(<<"R", "7">>)
SVisayas == Str(<<"V", "i", "s", "a", "y", "a", "s">>)
SDrain == Str(<<"D", "r", "a", "i", "n">>)
SBeta == Str(<<"B", "e", "t", "a">>)
S100 == Str(<<"1", "0", "0">>)
S80 == Str(<<"8", "0">>)

\* region, island, year, type of work, budget, cost and the two dates vary
ReportRowSet == {
    Raw(S2021, S100, S80, DateStr(3), DateStr(13), SNCR, SLuzon, SAcme, SDike),
    Raw(S2022, Str(<<"2", "0", "0">>), Str(<<"1", "5", "0">>), DateStr(3), DateStr(43),
        SNCR, SLuzon, SAcme, SDike),
    Raw(S2021, Str(<<"5", "0">>), Str(<<"6", "0">>), DateStr(3), DateStr(8),
        SNCR, SLuzon, SBeta, SDrain),
    Raw(S2021, S100, S80, DateStr(3), DateStr(13), SR7, SVisayas, SBeta, SDike),
    Raw(S2023x, Str(<<"1", ",", "2", "0", "0", ".", "5">>), S100,
        DateStr(3), DateStr(23), SR7, SVisayas, SAcme, SDrain),
    Raw(S2022, Str(<<"0", ".", "1", "2", "5">>), Str(<<"0", ".", "0", "6", "2", "5">>),
        DateStr(3), DateStr(3), SR7, SVisayas, SBeta, SDrain),
    Raw(S2022, S100, S80, SEmpty, DateStr(9), Str(<<"A", "|", "B">>), Str(<<"C">>),
        SAcme, SDike),
    Raw(S2023x, Str(<<"6", "0">>), Str(<<"2", "0">>), DateStr(10), DateStr(7),
        Str(<<"A">>), Str(<<"B", "|", "C">>), SBeta, SDike),
    Raw(S2023x, Str(<<"2", ",", "0", "0", "0", ".", "5">>),
        Str(<<"2", ",", "5", "0", "0">>), DateStr(3), DateStr(63),
        SNCR, SLuzon, SAcme, SDrain),
    Raw(S2022, S80, Str(<<"5", "0">>), DateStr(3), DateStr(13), SR7, SVisayas, SAcme,
        SDike),
    Raw(S2021, Str(<<"1", "0", "0", ".", "5">>), S100, DateStr(3), DateStr(13),
        SNCR, SLuzon, SAcme, SDrain) }

\* The rows of the contractor data: contractors 1..nC, each with MinProjects
\* rows, but for contractor `short` (if any), which has one row fewer and the
\* highest contract cost of all.  `seed` varies costs, savings and delays.
\* Each contractor works in a region of its own.
MaxSeed == 3

ContractorName(i) == Str(<<"C">> \o IntChars(i))
CostOf(i, short, seed) ==
    (IF i = short THEN 100 ELSE 10 + ((i * 7 + seed * 3) % 13))
        * (IF seed >= 2 THEN 100 ELSE 1)
BudgetOf(i, short, seed) ==
    IF i % 6 = 5 /\ seed = MaxSeed THEN 3 * CostOf(i, short, seed)
    ELSE CostOf(i, short, seed) + ((i * 5 + seed) % 7) - 2
ContractorRaw(i, short, seed) ==
    Raw(S2022, Str(IntChars(BudgetOf(i, short, seed))), Str(IntChars(CostOf(i, short, seed))),
        IF i % 4 = 3 THEN SEmpty ELSE DateStr(3), DateStr(3 + ((i * 11 + seed) % 50)),
        ContractorName(i), SLuzon, ContractorName(i), SDike)

RECURSIVE ContractorRows(_, _, _)
ContractorRows(nC, short, seed) ==
    IF nC = 0 THEN <<>>
    ELSE ContractorRows(nC - 1, short, seed)
            \o [j \in 1..(IF nC = short THEN MinProjects - 1 ELSE MinProjects) |->
                    ContractorRaw(nC, short, seed)]

-----------------------------------------------------------------------------
(* Specifications of a call of a report generator on a cleaned project set. *)

InitReport ==
    /\ file \in Files
    /\ pc = "report"
    /\ \E rows \in SeqsUpTo(ReportRowSet, MaxProjects) :
           data = cleanAndPrepareData(rows).cleaned
    /\ rawRows = None /\ cleanRun = None
    /\ report = None /\ arr = None /\ medianOut = None
    /\ NoProgram

InitContractors ==
    /\ file \in Files
    /\ pc = "report"
    /\ \E nC \in 0..MaxContractors : \E short \in 0..nC : \E seed \in 0..MaxSeed :
           data = cleanAndPrepareData(ContractorRows(nC, short, seed)).cleaned
    /\ rawRows = None /\ cleanRun = None
    /\ report = None /\ arr = None /\ medianOut = None
    /\ NoProgram

Report1 ==
    /\ pc = "report"
    /\ report' = IF file = "part_000" THEN generateReport1(data)
                 ELSE generateReport1_main(data)
    /\ pc' = "done"
    /\ UNCHANGED <<file, rawRows, cleanRun, data, arr, medianOut>>
    /\ UNCHANGED program

Report2 ==
    /\ pc = "report"
    /\ report' = IF file = "part_000" THEN generateReport2(data)
                 ELSE generateReport2_main(data)
    /\ pc' = "done"
    /\ UNCHANGED <<file, rawRows, cleanRun, data, arr, medianOut>>
    /\ UNCHANGED program

Report3 ==
    /\ pc = "report"
    /\ report' = IF file = "part_000" THEN generateReport3(data)
                 ELSE generateReport3_main(data)
    /\ pc' = "done"
    /\ UNCHANGED <<file, rawRows, cleanRun, data, arr, medianOut>>
    /\ UNCHANGED program

NextRegional == Report1
NextContractors == Report2
NextTrends == Report3

SpecRegional == InitReport /\ [][NextRegional]_vars
SpecContractors == InitContractors /\ [][NextContractors]_vars
SpecTrends == InitReport /\ [][NextTrends]_vars

-----------------------------------------------------------------------------
(* Claims about the regional report *)

\* a score as a number: part_000 writes a number, main.js a formatted string
ScoreOf(row) ==
    IF "k" \in DOMAIN row.EfficiencyScore THEN row.EfficiencyScore
    ELSE StrToNum(row.EfficiencyScore)

\* the (region, mainIsland) pairs of a project set
RegionPairs(d) == {<<d[i].Region, d[i].MainIsland>> : i \in 1..Len(d)}

\* median(savings) / average(delays) of the projects of a pair, 0 when that is
\* not finite or negative: the score before normalization
RawScore(d, pair) ==
    LET m == SelectSeq(d, LAMBDA r : <<r.Region, r.MainIsland>> = pair)
        e == NumDiv(median([i \in 1..Len(m) |-> m[i].CostSavings]).value,
                    averageOf(file, [i \in 1..Len(m) |-> m[i].CompletionDelayDays]))
    IN  IF ~isFinite(e) \/ NumLt(e, Zero) THEN Zero ELSE e

AllRawScoresEqual(d) ==
    \A p, q \in RegionPairs(d) : RawScore(d, p) = RawScore(d, q)

\* C5: every efficiencyScore of the regional report lies in [0, 100], and when
\* all groups have the same raw score (a single group included) every
\* efficiencyScore is 0.
C5_ScoresNormalized ==
    pc = "done" =>
        /\ \A i \in 1..Len(report) :
               NumLe(Zero, ScoreOf(report[i])) /\ NumLe(ScoreOf(report[i]), Int2Num(100))
        /\ AllRawScoresEqual(data) => \A i \in 1..Len(report) : ScoreOf(report[i]) = Zero

\* the hundredths the TotalApprovedBudget column adds up to
RECURSIVE ShownTotal(_, _)
ShownTotal(rows, k) ==
    IF k = 0 THEN 0 ELSE ShownTotal(rows, k - 1) + Shown(rows[k].TotalApprovedBudget)

BudgetTotal(d) == Sum([i \in 1..Len(d) |-> d[i].ApprovedBudgetForContract])

\* C9 as stated: the TotalApprovedBudget of the regional rows add up to exactly
\* the sum of approvedBudget over the cleaned projects.
C9_BudgetSumExact ==
    pc = "done" => Fin(ShownTotal(report, Len(report)), 100) = BudgetTotal(data)

\* C9 amended: the TotalApprovedBudget of the regional rows add up to the sum
\* of approvedBudget over the cleaned projects, up to the rounding of each row
\* to two decimals (at most 0.005 per row): no budget is lost or counted twice.
C9_BudgetSumRounded ==
    pc = "done" =>
        NumLe(NumAbs(NumSub(Fin(ShownTotal(report, Len(report)), 100), BudgetTotal(data))),
              Fin(Len(report), 200))

\* two rows, one of them the sum of two projects, and a total that rounding moved
C9_Witness ==
    /\ pc = "done"
    /\ Len(report) = 2
    /\ Len(data) = 3
    /\ Fin(ShownTotal(report, Len(report)), 100) # BudgetTotal(data)

-----------------------------------------------------------------------------
(* Claims about the contractor report *)

\* the cleaned projects of a contractor, and their total contract cost
ProjectsOf(d, name) == Cardinality({i \in 1..Len(d) : d[i].Contractor = name})
TotalCostOf(d, name) ==
    LET m == SelectSeq(d, LAMBDA r : r.Contractor = name)
    IN  Sum([i \in 1..Len(m) |-> m[i].ContractCost])
ContractorsOf(d) == {d[i].Contractor : i \in 1..Len(d)}
Qualifying(d) == {c \in ContractorsOf(d) : ProjectsOf(d, c) >= 5}
Reported == {report[i].Contractor : i \in 1..Len(report)}

\* C6: the contractor report holds no contractor with fewer than 5 cleaned
\* projects and at most 15 rows; a contractor with 4 projects is absent even
\* when its total contract cost is the highest.
C6_FilteredAndTruncated ==
    pc = "done" =>
        /\ Len(report) <= 15
        /\ \A i \in 1..Len(report) : ProjectsOf(data, report[i].Contractor) >= 5

\* 16 contractors qualify, 15 are reported, and the contractor with the highest
\* total contract cost has 4 projects and is not reported
C6_Witness ==
    /\ pc = "done"
    /\ Cardinality(Qualifying(data)) = 16
    /\ Len(report) = 15
    /\ \E c \in ContractorsOf(data) :
           /\ ProjectsOf(data, c) = 4
           /\ c \notin Reported
           /\ \A o \in ContractorsOf(data) \ {c} :
                  NumLt(TotalCostOf(data, o), TotalCostOf(data, c))

\* C7: the rows are ordered by total contract cost, non-increasing, and are
\* exactly the min(15, n) qualifying contractors of highest total contract cost.
C7_TopByTotalCost ==
    pc = "done" =>
        /\ \A i, j \in 1..Len(report) :
               i < j => NumLe(TotalCostOf(data, report[j].Contractor),
                              TotalCostOf(data, report[i].Contractor))
        /\ Cardinality(Reported) = Len(report)
        /\ Reported \subseteq Qualifying(data)
        /\ Len(report) = IF Cardinality(Qualifying(data)) < 15
                         THEN Cardinality(Qualifying(data)) ELSE 15
        /\ \A c \in Qualifying(data) \ Reported : \A r \in Reported :
               ~NumLt(TotalCostOf(data, r), TotalCostOf(data, c))

-----------------------------------------------------------------------------
(* Claims about the cost-trend report *)

\* the year-over-year column: YoYChange in part_000, YoYChangePercent in main.js
YoYOf(row) == IF "YoYChange" \in DOMAIN row THEN row.YoYChange ELSE row.YoYChangePercent

\* C8: every row of funding year 2021 has yoyChange exactly "0.00".
C8_BaselineYearZero ==
    pc = "done" =>
        \A i \in 1..Len(report) :
            report[i].FundingYear = Int2Num(2021) => YoYOf(report[i]) = ZeroStr

\* a 2021 group whose savings are negative, beside a later year whose change
\* is not "0.00"
C8_Witness ==
    /\ pc = "done"
    /\ \E i, j \in 1..Len(report) :
           /\ report[i].FundingYear = Int2Num(2021)
           /\ report[i].AvgCostSavings.neg
           /\ report[j].FundingYear # Int2Num(2021)
           /\ YoYOf(report[j]) # ZeroStr

-----------------------------------------------------------------------------
(* Claims about parseDateSafe *)

\* C13: parseDateSafe returns null whenever the raw value is unparseable or
\* absent (an undefined value of a missing column as well as an empty string)
\* and a date only when the raw value is a parseable calendar date: the
\* startDate of every project of the cleaner's output is the date its row
\* gives, or null when the row gives none.
C13_NullUnlessParseable ==
    pc = "cleaned" =>
        \A j \in 1..Len(cleanRun.cleaned) :
            cleanRun.cleaned[j].StartDate =
                IF cleanRun.cleaned[j].row.StartDate.t = "datestring"
                THEN Dayjs(cleanRun.cleaned[j].row.StartDate.day)
                ELSE Null

\* the yearly aggregate savings figure the running file divides by and
\* subtracts: that of generateReport3's forEach
YearAggregate(d, year) ==
    IF file = "part_000" THEN WeightedYearAvg(TypeMap(d), year)
    ELSE IF year = Int2Num(2021) THEN Baseline_main(TypeMap(d))
    ELSE GroupAvgOfYear_main(TypeMap(d), year)

\* (yearAvg - baselineAvg) / divisor * 100, to two decimals
ChangeOver(yearAvg, baselineAvg, divisor) ==
    toFixed(NumMul(NumDiv(NumSub(yearAvg, baselineAvg), divisor), Int2Num(100)))

\* max(|b|, 1)
AbsOrOneIfSmaller(b) == MathMax(NumAbs(b), Int2Num(1))

\* |b|, or 1 when b is 0
AbsOrOneIfZero(b) == IF b = Zero THEN Int2Num(1) ELSE NumAbs(b)

\* C14 as stated: for every row of a year other than 2021, yoyChange is
\* (yearAvg - baselineAvg) / max(|baselineAvg|, 1) * 100: the divisor is 1
\* whenever |baselineAvg| <= 1, also for a baseline strictly between 0 and 1.
C14_DivisorMaxAbsOne ==
    pc = "done" =>
        \A i \in 1..Len(report) :
            report[i].FundingYear # Int2Num(2021) =>
                YoYOf(report[i]) =
                    ChangeOver(YearAggregate(data, report[i].FundingYear),
                               YearAggregate(data, Int2Num(2021)),
                               AbsOrOneIfSmaller(YearAggregate(data, Int2Num(2021))))

\* C14 amended: for every row of a year other than 2021, yoyChange is
\* (yearAvg - baselineAvg) / divisor * 100 to two decimals, where the divisor
\* is 1 when the baseline is missing or zero and |baselineAvg| otherwise, also
\* for a baseline strictly between 0 and 1 in absolute value.
C14_DivisorAbsOrOne ==
    pc = "done" =>
        \A i \in 1..Len(report) :
            report[i].FundingYear # Int2Num(2021) =>
                YoYOf(report[i]) =
                    ChangeOver(YearAggregate(data, report[i].FundingYear),
                               YearAggregate(data, Int2Num(2021)),
                               AbsOrOneIfZero(YearAggregate(data, Int2Num(2021))))

\* a row of a later year beside a 2021 baseline strictly between 0 and 1
C14_Witness ==
    /\ pc = "done"
    /\ NumLt(Zero, YearAggregate(data, Int2Num(2021)))
    /\ NumLt(YearAggregate(data, Int2Num(2021)), Int2Num(1))
    /\ \E i \in 1..Len(report) :
           /\ report[i].FundingYear # Int2Num(2021)
           /\ YoYOf(report[i]) # ZeroStr

\* (sum of costSavings of the cleaned projects of the year) / (their number),
\* 0 for a year without project
ProjectAvg(d, year) ==
    LET m == SelectSeq(d, LAMBDA r : r.FundingYear = year)
    IN  IF m = <<>> THEN Zero
        ELSE NumDiv(Sum([i \in 1..Len(m) |-> m[i].CostSavings]), Int2Num(Len(m)))

\* C15: the yearly figure yoyChange is computed from is the average of
\* costSavings over all cleaned projects of the year (the project-count
\* weighted average of the year's groups), not the mean of the groups' averages.
C15_WeightedYearAverage ==
    pc = "done" =>
        \A i \in 1..Len(report) :
            report[i].FundingYear # Int2Num(2021) =>
                YoYOf(report[i]) =
                    ChangeOver(ProjectAvg(data, report[i].FundingYear),
                               ProjectAvg(data, Int2Num(2021)),
                               AbsOrOneIfZero(ProjectAvg(data, Int2Num(2021))))

\* the average cost savings of the projects of a (fundingYear, typeOfWork) group
GroupAvg(d, year, type) ==
    LET m == SelectSeq(d, LAMBDA r : r.FundingYear = year /\ r.TypeOfWork = type)
    IN  NumDiv(Sum([i \in 1..Len(m) |-> m[i].CostSavings]), Int2Num(Len(m)))

\* C16: the rows of the cost-trend report are ordered by fundingYear
\* ascending and, within a fundingYear, by the group's average cost savings
\* descending, compared as numbers.
C16_ByYearThenAvgSavings ==
    pc = "done" =>
        \A i, j \in 1..Len(report) :
            i < j =>
                \/ NumLt(report[i].FundingYear, report[j].FundingYear)
                \/ /\ report[i].FundingYear = report[j].FundingYear
                   /\ NumLe(GroupAvg(data, report[j].FundingYear, report[j].TypeOfWork),
                            GroupAvg(data, report[i].FundingYear, report[i].TypeOfWork))

-----------------------------------------------------------------------------
(* Claims about the order and the grouping of the regional report *)

\* the place in the cleaned project sequence of the first project of a pair
FirstOf(d, region, island) ==
    CHOOSE i \in 1..Len(d) :
        /\ d[i].Region = region /\ d[i].MainIsland = island
        /\ \A j \in 1..(i - 1) : ~(d[j].Region = region /\ d[j].MainIsland = island)

\* C17: the rows of the regional report are ordered by efficiencyScore
\* descending, and rows of equal efficiencyScore are in the order in which
\* their (region, mainIsland) group was first met in the cleaned projects.
C17_ByScoreThenFirstMet ==
    pc = "done" =>
        \A i, j \in 1..Len(report) :
            i < j =>
                \/ NumLt(ScoreOf(report[j]), ScoreOf(report[i]))
                \/ /\ ScoreOf(report[j]) = ScoreOf(report[i])
                   /\ FirstOf(data, report[i].Region, report[i].MainIsland)
                          < FirstOf(data, report[j].Region, report[j].MainIsland)

\* three rows: the group met last has the highest score and comes first, the
\* two others have equal scores and keep their order
C17_Witness ==
    /\ pc = "done"
    /\ Len(report) = 3
    /\ FirstOf(data, report[1].Region, report[1].MainIsland) = 3
    /\ NumLt(ScoreOf(report[2]), ScoreOf(report[1]))
    /\ ScoreOf(report[2]) = ScoreOf(report[3])

\* C18: two cleaned projects are in the same row of the regional report if
\* and only if they have equal region and equal mainIsland, so that the report
\* has one row for each distinct (region, mainIsland) pair, also when a value
\* holds the character "|".
C18_OneRowPerPair ==
    pc = "done" =>
        /\ Len(report) = Cardinality(RegionPairs(data))
        /\ \A p \in RegionPairs(data) :
               \E i \in 1..Len(report) :
                   report[i].Region = p[1] /\ report[i].MainIsland = p[2]

-----------------------------------------------------------------------------
(* Claims about the reliability index *)

\* the delays, the total savings of the cleaned projects of a contractor
DelaysOf(d, name) ==
    LET m == SelectSeq(d, LAMBDA r : r.Contractor = name)
    IN  [i \in 1..Len(m) |-> m[i].CompletionDelayDays]
TotalSavingsOf(d, name) ==
    LET m == SelectSeq(d, LAMBDA r : r.Contractor = name)
    IN  Sum([i \in 1..Len(m) |-> m[i].CostSavings])

\* (1 - avgDelay / 90) * (totalSavings / totalCost) * 100
Formula(avgDelay, totalSavings, totalCost) ==
    NumMul(NumMul(NumSub(Int2Num(1), NumDiv(avgDelay, Int2Num(90))),
                  NumDiv(totalSavings, totalCost)),
           Int2Num(100))

\* the value of the formula for a contractor, 0 when it is not finite, and
\* 100 when it is above 100; avgDelay is the average the running file takes
IndexOf(d, name) ==
    LET v == Formula(averageOf(file, DelaysOf(d, name)), TotalSavingsOf(d, name),
                     TotalCostOf(d, name))
    IN  IF ~isFinite(v) THEN Zero
        ELSE IF NumLt(Int2Num(100), v) THEN Int2Num(100) ELSE v

\* C19: the reliabilityIndex of every contractor row is the value of
\* (1 - avgDelay / 90) * (totalSavings / totalCost) * 100, 0 when that is not
\* finite, never above 100 (in the variant that also bounds it below, never
\* below 0); it is a finite number for every cleaned project set, also for a
\* contractor whose delays are all zero, negative or undefined.
C19_ReliabilityIndex ==
    pc = "done" =>
        \A i \in 1..Len(report) :
            /\ report[i].ReliabilityIndex.t = "dec"
            /\ NumLe(StrToNum(report[i].ReliabilityIndex), Int2Num(100))
            /\ report[i].ReliabilityIndex =
                   formatNumber(IF file = "main.js"
                                THEN MathMax(Zero, IndexOf(data, report[i].Contractor))
                                ELSE IndexOf(data, report[i].Contractor))

\* a report with a contractor whose delays are all undefined, one whose
\* formula value is above 100 and one whose value is negative
C19_Witness ==
    /\ pc = "done"
    /\ \E i, j, k \in 1..Len(report) :
           /\ \A n \in 1..Len(DelaysOf(data, report[i].Contractor)) :
                  isNaN(DelaysOf(data, report[i].Contractor)[n])
           /\ NumLt(Int2Num(100),
                    Formula(averageOf(file, DelaysOf(data, report[j].Contractor)),
                            TotalSavingsOf(data, report[j].Contractor),
                            TotalCostOf(data, report[j].Contractor)))
           /\ NumLt(TotalSavingsOf(data, report[k].Contractor), Zero)

-----------------------------------------------------------------------------
(* The program: main, loadCSV, generateReports, generateSummary and         *)
(* reportSelection.  pc is "main" at the prompt of main, "reportSelection"  *)
(* at the prompt of reportSelection and "exited" once the process is over.  *)

\* the messages a choice can end on
Menu == "Select Language Implementation:"
Processing == "Processing dataset..."
ErrorLoadingFile == "Error loading file:"
NoDataLoaded == "Error: No data loaded. Please load the CSV file first (option 1)."
NoValidDataAfterCleaning == "No valid data after cleaning. Please check your CSV file."
SummaryPreview == "Summary Preview:"
InvalidChoice == "Invalid choice."
Exiting == "Exiting the program."
UnhandledRejection == "UnhandledPromiseRejection"

\* loadedData when it holds an array: null otherwise
Array(a) == [t |-> "array", a |-> a]

\* A cleaned project as cleanAndPrepareData reads it when it is given cleaned
\* projects: its four texts are strings, like the texts of a raw row.
IsProject(r) == "CostSavings" \in DOMAIN r
AsRow(r) ==
    IF IsProject(r)
    THEN [r EXCEPT !.Region = Str(@), !.MainIsland = Str(@),
                   !.Contractor = Str(@), !.TypeOfWork = Str(@)]
    ELSE r
AsRows(rows) == [i \in 1..Len(rows) |-> AsRow(rows[i])]

\* Object.keys(Object.fromEntries(report2.map((r) => [r.Contractor, r])))
ContractorKeys(report2) == {report2[i].Contractor : i \in 1..Len(report2)}

\* Object.keys(Object.fromEntries(report1.map((r) => [r.Region, r])))
RegionKeys(report1) == {report1[i].Region : i \in 1..Len(report1)}

\* the summary with the contractors of the data counted, not those of the report
generateSummary_allContractors(f, d, contractors, regions) ==
    [totalProjects |-> Len(d),
     totalContractors |-> Cardinality({d[i].Contractor : i \in 1..Len(d)}),
     totalRegions |-> Cardinality(regions),
     avgGlobalDelay |->
         formatNumber(averageOf(f, [i \in 1..Len(d) |-> d[i].CompletionDelayDays])),
     totalSavings |-> formatNumber(Sum([i \in 1..Len(d) |-> d[i].CostSavings]))]

\* generateSummary in file f; contractors and regions are the keys of the two
\* objects it is given
generateSummary(f, d, contractors, regions) ==
    [totalProjects |-> Len(d),
     totalContractors |-> Cardinality(contractors),
     totalRegions |-> Cardinality(regions),
     avgGlobalDelay |->
         formatNumber(averageOf(f, [i \in 1..Len(d) |-> d[i].CompletionDelayDays])),
     totalSavings |-> formatNumber(Sum([i \in 1..Len(d) |-> d[i].CostSavings]))]

\* the three generators of file f
Report1Of(f, d) == IF f = "part_000" THEN generateReport1(d) ELSE generateReport1_main(d)
Report2Of(f, d) == IF f = "part_000" THEN generateReport2(d) ELSE generateReport2_main(d)
Report3Of(f, d) == IF f = "part_000" THEN generateReport3(d) ELSE generateReport3_main(d)

File1 == "report1_regional_summary.csv"
File2 == "report2_contractor_ranking.csv"
File3 == "report3_cost_trends.csv"
SummaryFile == "summary.json"

\* a file written: its name, its content and the data it was made from
Written(name, content, d) == [name |-> name, content |-> content, data |-> d]

\* the same files, the summary written first
Outputs_summaryFirst(f, d, report1, report2) ==
    << Written(SummaryFile,
               generateSummary(f, d, ContractorKeys(report2), RegionKeys(report1)), d),
       Written(File1, report1, d),
       Written(File2, report2, d),
       Written(File3, Report3Of(f, d), d) >>

\* what generateReports writes, in order, from the cleaned data
Outputs(f, d, report1, report2) ==
    << Written(File1, report1, d),
       Written(File2, report2, d),
       Written(File3, Report3Of(f, d), d),
       Written(SummaryFile,
               generateSummary(f, d, ContractorKeys(report2), RegionKeys(report1)), d) >>

\* the check that nothing is left, never made
NoValidData_never(d) == FALSE

\* if (!data.length)
NoValidData(d) == Len(d) = 0

\* cleanAndPrepareData threw in generateReports: the nearest enclosing try of
\* main catches it, and without one the rejection is unhandled
GenerateThrew ==
    /\ IF tries > 0
       THEN pc' = "main" /\ tries' = tries - 1 /\ console' = ErrorLoadingFile
       ELSE pc' = "exited" /\ tries' = tries /\ console' = UnhandledRejection
    /\ written' = written

\* generateReports from its call c of cleanAndPrepareData(loadedData)
GenerateFrom(c) ==
    IF c.threw THEN GenerateThrew
    ELSE /\ pc' = "reportSelection"
         /\ tries' = tries
         /\ IF NoValidData(c.cleaned)
            THEN console' = NoValidDataAfterCleaning /\ written' = written
            ELSE /\ written' = written \o Outputs(file, c.cleaned,
                                                   Report1Of(file, c.cleaned),
                                                   Report2Of(file, c.cleaned))
                 /\ console' = SummaryPreview

\* main, choice 1, from the rows read and its call c of cleanAndPrepareData:
\* loadCSV has assigned the rows to loadedData when the cleaner is called
Loaded(rows, c) ==
    /\ rawRows' = rows
    /\ IF c.threw
       THEN /\ loadedData' = Array(rows)
            /\ console' = ErrorLoadingFile
            /\ pc' = IF file = "part_000" THEN "main" ELSE "exited"
            /\ tries' = tries
       ELSE /\ loadedData' = Array(c.cleaned)
            /\ console' = Processing
            /\ pc' = "main"
            /\ tries' = IF file = "part_000" THEN tries + 1 ELSE tries

\* the rows of the CSV file at the time of a load
RValid == Raw(S2021, S100, S80, DateStr(3), DateStr(13), SNCR, SLuzon, SAcme, SDike)
RLate == Raw(S2022, Str(<<"1", ",", "2", "0", "0", ".", "5">>), S100, DateStr(3),
             DateStr(43), SR7, SVisayas, SBeta, SDrain)
RNoStart == Raw(S2023x, S100, S80, SEmpty, DateStr(9), SR7, SVisayas, SBeta, SDike)
RNoCompletion == Raw(S2021, S100, S80, DateStr(3), SEmpty, SNCR, SLuzon, SAcme, SDike)
R2024 == Raw(S2024, S100, S80, DateStr(3), DateStr(13), SNCR, SLuzon, SAcme, SDike)

DriverInputs ==
    { <<>>, <<R2024>>, <<RValid>>, <<RLate, RNoStart>>, <<RValid, RNoCompletion>>,
      <<R2024, RLate>>,
      ContractorRows(MaxContractors, MaxContractors, 0),
      ContractorRows(MinProjects + 1, 0, MaxSeed) }

InitDriver ==
    /\ file \in Files
    /\ pc = "main"
    /\ loadedData = Null
    /\ tries = 0
    /\ console = Menu
    /\ written = <<>>
    /\ rawRows = <<>>
    /\ cleanRun = None /\ data = None /\ report = None
    /\ arr = None /\ medianOut = None

\* main, choice 1
Load ==
    /\ pc = "main"
    /\ tries < MaxTries
    /\ \E rows \in DriverInputs : Loaded(rows, cleanAndPrepareData(rows))
    /\ UNCHANGED <<file, written>>
    /\ UNCHANGED call

\* main, choice 2: generateReports, then the prompt of reportSelection
Generate ==
    /\ pc = "main"
    /\ Len(written) < MaxWritten
    /\ IF loadedData = Null
       THEN /\ console' = NoDataLoaded
            /\ pc' = "reportSelection"
            /\ UNCHANGED <<tries, written>>
       ELSE GenerateFrom(cleanAndPrepareData(AsRows(loadedData.a)))
    /\ UNCHANGED <<file, rawRows, loadedData>>
    /\ UNCHANGED call

\* main, any other choice
Invalid ==
    /\ pc = "main"
    /\ console' = InvalidChoice
    /\ pc' = IF file = "part_000" THEN "main" ELSE "exited"
    /\ UNCHANGED <<file, rawRows, loadedData, tries, written>>
    /\ UNCHANGED call

\* reportSelection, Y: main is called and not awaited
Back ==
    /\ pc = "reportSelection"
    /\ pc' = "main"
    /\ tries' = 0
    /\ console' = Menu
    /\ UNCHANGED <<file, rawRows, loadedData, written>>
    /\ UNCHANGED call

\* reportSelection, N
Exit ==
    /\ pc = "reportSelection"
    /\ pc' = "exited"
    /\ console' = Exiting
    /\ UNCHANGED <<file, rawRows, loadedData, tries, written>>
    /\ UNCHANGED call

NextDriver == Load \/ Generate \/ Invalid \/ Back \/ Exit

SpecDriver == InitDriver /\ [][NextDriver]_vars

-----------------------------------------------------------------------------
(* Claims about the program *)

\* the places in `written` of the summaries: each is the fourth file of a run
\* of generateReports, two places after the contractor report of that run
Summaries == {k \in 1..Len(written) : written[k].name = SummaryFile}

\* the names of the contractors of a contractor report
NamesIn(report2) == {report2[i].Contractor : i \in 1..Len(report2)}

\* C20: the distinct contractor count of the summary is the number of
\* contractors of the contractor report of the same run (at most 15, none
\* with fewer than 5 projects), and its total project count is the number of
\* cleaned projects.
C20_SummaryCounts ==
    \A k \in Summaries :
        /\ written[k - 2].name = File2
        /\ written[k].content.totalContractors = Cardinality(NamesIn(written[k - 2].content))
        /\ written[k].content.totalContractors = Len(written[k - 2].content)
        /\ written[k].content.totalContractors <= 15
        /\ \A c \in NamesIn(written[k - 2].content) : ProjectsOf(written[k].data, c) >= 5
        /\ written[k].content.totalProjects = Len(written[k].data)

\* a summary that counts 15 contractors where the cleaned projects have 17,
\* 16 of them with 5 projects
C20_Witness ==
    \E k \in Summaries :
        /\ written[k].content.totalContractors = 15
        /\ Cardinality(ContractorsOf(written[k].data)) = 17
        /\ Cardinality(Qualifying(written[k].data)) = 16
        /\ written[k].content.totalProjects = 84

\* C11: when no row survives cleaning, generateReports ends on the message
\* that there is no valid data and writes none of the three reports and no
\* summary; it ends on that message in no other case.
C11_NoValidDataStops ==
    [][(pc = "main" /\ pc' = "reportSelection" /\ loadedData # Null) =>
           IF loadedData.a = <<>>
           THEN console' = NoValidDataAfterCleaning /\ written' = written
           ELSE console' # NoValidDataAfterCleaning]_vars

\* rows were loaded, none survived cleaning, generateReports ended on the
\* message and nothing is written
C11_Witness ==
    /\ pc = "reportSelection"
    /\ console = NoValidDataAfterCleaning
    /\ rawRows # <<>>
    /\ loadedData = Array(<<>>)
    /\ written = <<>>

\* C12: after a load has ended, with or without an error, loadedData is unset
\* or is a complete cleaned project set, never the raw rows.
C12_LoadedDataIsCleaned ==
    loadedData # Null =>
        /\ \A i \in 1..Len(loadedData.a) : IsProject(loadedData.a[i])
        /\ loadedData.a = cleanAndPrepareData(rawRows).cleaned

\* the names of the files written by a step, in the order they were written
NamesWritten(before, after) ==
    [k \in 1..(Len(after) - Len(before)) |-> after[Len(before) + k].name]

\* C23: in every sequence of menu choices, nothing is written while
\* loadedData is still unset; generateReports chosen with loadedData unset
\* writes nothing and leaves it unset; and a choice that writes, writes the
\* regional, the contractor and the cost-trend table in that order and the
\* summary after them, the files written before being kept.
C23_WrittenAfterLoadInOrder ==
    [][/\ loadedData = Null =>
              /\ written = <<>>
              /\ written' = written
              /\ (pc = "main" /\ pc' = "reportSelection") => loadedData' = Null
       /\ written' # written =>
              /\ Len(written') > Len(written)
              /\ SubSeq(written', 1, Len(written)) = written
              /\ NamesWritten(written, written') = <<File1, File2, File3, SummaryFile>>]_vars

\* generateReports was chosen before any load: it ended on its message with
\* nothing written and loadedData unset
C23_Witness ==
    /\ pc = "reportSelection"
    /\ console = NoDataLoaded
    /\ loadedData = Null
    /\ written = <<>>

\* a second run of generateReports has written its four files after those of
\* the first
C23_WitnessTwoRuns ==
    /\ Len(written) = 8
    /\ written[8].name = SummaryFile

\* the fields of a cleaned project that the reports read
ListedFields ==
    {"FundingYear", "ApprovedBudgetForContract", "ContractCost", "Region", "MainIsland",
     "Contractor", "TypeOfWork", "CostSavings", "CompletionDelayDays"}

\* two cleaned sets hold as many projects, in the same order, with the same
\* value in each of these fields
SameListed(second, first) ==
    /\ Len(second) = Len(first)
    /\ \A i \in 1..Len(first) : \A f \in ListedFields : second[i][f] = first[i][f]

\* loadedData holds the cleaned set that a load stored
HoldsCleaned ==
    /\ loadedData # Null
    /\ \A i \in 1..Len(loadedData.a) : IsProject(loadedData.a[i])

\* the call of cleanAndPrepareData(loadedData) in generateReports
Recleaned == cleanAndPrepareData(AsRows(loadedData.a))

\* C22: when generateReports runs on the cleaned set that a load stored, its
\* second cleaning returns and keeps every project of the stored set, as many
\* and in the same order, with the same FundingYear, ApprovedBudgetForContract,
\* ContractCost, Region, MainIsland, Contractor, TypeOfWork, CostSavings and
\* CompletionDelayDays; the files it writes are computed from that set.
C22_SecondCleaningKeeps ==
    [][(/\ pc = "main"
        /\ HoldsCleaned
        /\ loadedData' = loadedData
        /\ console' \notin {InvalidChoice, Processing}) =>
            /\ pc' = "reportSelection"
            /\ ~Recleaned.threw
            /\ SameListed(Recleaned.cleaned, loadedData.a)
            /\ \A k \in (Len(written) + 1)..Len(written') :
                   SameListed(written'[k].data, loadedData.a)]_vars

\* Reports were written from a stored set of two projects, the first with a
\* budget that is not a whole number and the second with no delay (its start
\* date was not a date), and the set is still the one stored.
C22_Witness ==
    /\ pc = "reportSelection"
    /\ console = SummaryPreview
    /\ HoldsCleaned
    /\ Len(loadedData.a) = 2
    /\ loadedData.a[1].ApprovedBudgetForContract.d # 1
    /\ isNaN(loadedData.a[2].CompletionDelayDays)
    /\ SameListed(written[Len(written)].data, loadedData.a)


-----------------------------------------------------------------------------
(* Specification of the analyzers run over one cleaned set: the calls that
   generateReports makes on its `data`, taken in any order.  pc is the
   sequence of the calls made so far; report holds what each returned. *)

MaxShared == 2

\* the raw rows whose cleaned set the analyzers share
SharedInputs ==
    SeqsUpTo(ReportRowSet, MaxShared)
        \cup {ContractorRows(2, 0, MaxSeed), ContractorRows(MinProjects + 1, 1, 1)}

\* generateReport1(data): the rows returned, and data as the call leaves it.
\* The call pushes numbers of the projects into arrays of its own groups, and
\* assigns to, and sorts, its own result rows only.
Report1Call(f, d) == [out |-> Array(Report1Of(f, d)), data |-> d]

\* generateReport2(data) leaving data in the reverse order
Report2Call_reversesData(f, d) == [out |-> Array(Report2Of(f, d)), data |-> Reverse(d)]

\* generateReport2(data): the rows returned, and data as the call leaves it.
\* The call adds numbers of the projects to totals of its own groups, and
\* sorts, slices and deletes _rawTotalCost on its own result rows only.
Report2Call(f, d) == [out |-> Array(Report2Of(f, d)), data |-> d]

\* generateReport3(data): the rows returned, and data as the call leaves it.
\* The call pushes numbers of the projects into arrays of its own groups, and
\* assigns to, sorts and deletes _rawAvgSavings on its own result rows only.
Report3Call(f, d) == [out |-> Array(Report3Of(f, d)), data |-> d]

\* generateSummary(data, contractors, regions) from the reports r2 and r1:
\* the object returned, and data as the call leaves it (data.map and
\* data.reduce build new values)
SummaryCall(f, d, r2, r1) ==
    [out |-> generateSummary(f, d, ContractorKeys(r2.a), RegionKeys(r1.a)), data |-> d]

InitAnalyzers ==
    /\ file \in Files
    /\ pc = <<>>
    /\ \E rows \in SharedInputs : cleanRun = cleanAndPrepareData(rows)
    /\ data = cleanRun.cleaned
    /\ report = [r1 |-> None, r2 |-> None, r3 |-> None, summary |-> None]
    /\ rawRows = None /\ arr = None /\ medianOut = None
    /\ NoProgram

RunReport1 ==
    /\ report.r1 = None
    /\ report' = [report EXCEPT !.r1 = Report1Call(file, data).out]
    /\ data' = Report1Call(file, data).data
    /\ pc' = Append(pc, "generateReport1")
    /\ UNCHANGED <<file, rawRows, cleanRun, arr, medianOut>>
    /\ UNCHANGED program

RunReport2 ==
    /\ report.r2 = None
    /\ report' = [report EXCEPT !.r2 = Report2Call(file, data).out]
    /\ data' = Report2Call(file, data).data
    /\ pc' = Append(pc, "generateReport2")
    /\ UNCHANGED <<file, rawRows, cleanRun, arr, medianOut>>
    /\ UNCHANGED program

RunReport3 ==
    /\ report.r3 = None
    /\ report' = [report EXCEPT !.r3 = Report3Call(file, data).out]
    /\ data' = Report3Call(file, data).data
    /\ pc' = Append(pc, "generateReport3")
    /\ UNCHANGED <<file, rawRows, cleanRun, arr, medianOut>>
    /\ UNCHANGED program

\* generateSummary takes the contractors of report2 and the regions of report1
RunSummary ==
    /\ report.summary = None
    /\ report.r1 # None /\ report.r2 # None
    /\ report' = [report EXCEPT !.summary = SummaryCall(file, data, report.r2, report.r1).out]
    /\ data' = SummaryCall(file, data, report.r2, report.r1).data
    /\ pc' = Append(pc, "generateSummary")
    /\ UNCHANGED <<file, rawRows, cleanRun, arr, medianOut>>
    /\ UNCHANGED program

NextAnalyzers == RunReport1 \/ RunReport2 \/ RunReport3 \/ RunSummary

SpecAnalyzers == InitAnalyzers /\ [][NextAnalyzers]_vars

\* what each analyzer returns when it is the only one run on the cleaned set
Alone ==
    [r1 |-> Array(Report1Of(file, cleanRun.cleaned)),
     r2 |-> Array(Report2Of(file, cleanRun.cleaned)),
     r3 |-> Array(Report3Of(file, cleanRun.cleaned)),
     summary |-> generateSummary(file, cleanRun.cleaned,
                                 ContractorKeys(Report2Of(file, cleanRun.cleaned)),
                                 RegionKeys(Report1Of(file, cleanRun.cleaned)))]

=============================================================================
